---- MODULE Spec2Model ----
(***************************************************************************)
(* EventDecodingPipe (event-decoding-pipe.ts): the topic registry built by *)
(* the constructor, the request getStream() issues to the portal, and the  *)
(* TransformStream callback that turns one batch of blocks into at most    *)
(* one batch of decoded events.                                            *)
(*                                                                         *)
(* JavaScript values are modelled as follows.  An object is a function     *)
(* from its own keys (strings) to values, so an absent optional field is   *)
(* a key missing from DOMAIN.  An array is a sequence.  A Map is the       *)
(* sequence of its [key, value] entries in insertion order.  A call that   *)
(* can throw returns a record with a field saying whether it threw.        *)
(***************************************************************************)
EXTENDS Integers, Sequences, FiniteSets, TLC

VARIABLES
  events,     \* this.events: the definition sets given to the constructor
  topicMap,   \* this.topicMap
  phase,      \* "new" | "idle" | "building" | "done" | "errored"
  params,     \* the Filters given to stream(), once it was called
  setup,      \* how portalClient.getStream() answered: "none" before the
              \* call, then "established" or "refused"
  request,    \* the requests portalClient.getStream() has received
  data,       \* the PortalStreamData chunk being assembled / last transformed
  nextBlock,  \* the number of the next block the portal will send
  outQ,       \* the readable side's queue: chunks enqueued and not yet read
  last,       \* what the last transform() call did (ghost)
  nIn,        \* number of chunks given to transform()
  history,    \* for each incoming chunk: its block numbers, whether it was
              \* dropped by a catch, whether a log of it had a match (ghost)
  delivered   \* for each chunk the consumer has read, the incoming chunks
              \* its events came from (ghost)

vars == <<events, topicMap, phase, params, setup, request, data, nextBlock,
          outQ, last, nIn, history, delivered>>

----------------------------------------------------------------------------
(* Bounds of the model. *)

\* incoming chunks per stream
MaxBatches == 2
\* blocks per incoming chunk
MaxBlocks == 2
\* logs per incoming chunk, over all its blocks
MaxLogs == 2

----------------------------------------------------------------------------
(* JavaScript helpers. *)

Has(obj, k) == k \in DOMAIN obj

\* obj.k as an optional value: <<>> when the key is absent (undefined)
Opt(obj, k) == IF Has(obj, k) THEN <<obj[k]>> ELSE <<>>

\* a spread in which the value written first is kept
SpreadFirstWins(a, b) ==
  [k \in DOMAIN a \cup DOMAIN b |-> IF k \in DOMAIN a THEN a[k] ELSE b[k]]

\* { ...a, ...b }: the keys of both, b's value winning
Spread(a, b) ==
  [k \in DOMAIN a \cup DOMAIN b |-> IF k \in DOMAIN b THEN b[k] ELSE a[k]]

RECURSIVE FlatSeq(_)
\* the concatenation of a sequence of sequences
FlatSeq(ss) == IF ss = <<>> THEN <<>> ELSE Head(ss) \o FlatSeq(Tail(ss))

Range(s) == {s[i] : i \in 1..Len(s)}

\* Map.has / Map.get / Map.set / Map.keys on the entry sequence
MapHas(m, k) == \E i \in 1..Len(m) : m[i].key = k

MapGet(m, k) ==
  IF MapHas(m, k)
    THEN <<m[CHOOSE i \in 1..Len(m) : m[i].key = k].value>>
    ELSE <<>>

\* Map.set adding an entry also when the key is present
MapSetAppend(m, k, v) == Append(m, [key |-> k, value |-> v])

MapSet(m, k, v) ==
  IF MapHas(m, k)
    THEN [i \in 1..Len(m) |-> IF m[i].key = k THEN [key |-> k, value |-> v]
                                               ELSE m[i]]
    ELSE Append(m, [key |-> k, value |-> v])

MapKeys(m) == [i \in 1..Len(m) |-> m[i].key]

----------------------------------------------------------------------------
(* Event handlers: the caller's capability objects. *)

Handler(id, topic, signature) ==
  [id |-> id, topic |-> topic, signature |-> signature]

Erc20Transfer  == Handler("h1", "T1", "Transfer(address,address,uint256)")
Erc721Transfer == Handler("h2", "T1", "Transfer(address,address,uint256)")
Erc721Approval == Handler("h3", "T2", "Approval(address,address,uint256)")

Entry(name, h) == [eventName |-> name, handler |-> h]

\* Object.entries(event): a definition set is kept as its entries in
\* insertion order (event names are identifiers, so no integer-like key is
\* moved to the front)
ObjectEntries(event) == event

\* the definition-set lists a pipe may be constructed with: two sets that
\* both name an event Transfer on topic T1, and one set whose entries
\* Transfer721 and Transfer share T1
Registrations ==
  { << <<Entry("Transfer", Erc20Transfer)>>,
       <<Entry("Transfer", Erc721Transfer), Entry("Approval", Erc721Approval)>> >>,
    << <<Entry("Approval", Erc721Approval), Entry("Transfer721", Erc721Transfer),
         Entry("Transfer", Erc20Transfer)>> >> }

\* log.data: the payload, which decides what each handler does with the log
DataValues == {"d1", "d2", "d3"}

\* handler.is(log): "true", "false" or "throw".  The check is the caller's
\* and opaque to the pipe; here it is a fixed function of the handler and the
\* log's data that covers accepting, rejecting and faulting handlers:
\*        h1               h2        h3
\*   d1   accepts          accepts   accepts
\*   d2   is() throws      accepts   decode() throws
\*   d3   decode() throws  rejects   accepts
HandlerIs(h, log) ==
  CASE log.data = "d1" -> "true"
    [] log.data = "d2" -> IF h.id = "h1" THEN "throw" ELSE "true"
    [] log.data = "d3" -> IF h.id = "h2" THEN "false" ELSE "true"

\* handler.decode(log): the decoded parameters, or a throw
HandlerDecode(h, log) ==
  LET decoded ==
        CASE h.id = "h1" -> [from |-> "0xS", to |-> "0xR", value |-> log.data]
          [] h.id = "h2" -> [from |-> "0xS", to |-> "0xR", tokenId |-> log.data]
          [] h.id = "h3" -> [owner |-> "0xS", spender |-> "0xR",
                             address |-> "0xParam", topic |-> "TParam"]
      throws == \/ log.data = "d2" /\ h.id = "h3"
                \/ log.data = "d3" /\ h.id = "h1"
  IN  [threw |-> throws, value |-> decoded]

----------------------------------------------------------------------------
(* The pipe. *)

RECURSIVE setTopics(_, _)
\* the inner forEach of initializeTopicMap over one definition set
setTopics(m, entries) ==
  IF entries = <<>> THEN m
  ELSE LET e     == Head(entries)
           topic == e.handler.topic
           m1    == IF ~MapHas(m, topic) THEN MapSet(m, topic, <<>>) ELSE m
           m2    == MapSet(m1, topic,
                           Append(MapGet(m1, topic)[1],
                                  [eventName |-> e.eventName, handler |-> e.handler]))
       IN  setTopics(m2, Tail(entries))

RECURSIVE initializeTopicMapFrom(_, _)
initializeTopicMapFrom(m, evs) ==
  IF evs = <<>> THEN m
  ELSE initializeTopicMapFrom(setTopics(m, ObjectEntries(Head(evs))), Tail(evs))

\* initializeTopicMap(): this.topicMap after the constructor
initializeTopicMap(evs) == initializeTopicMapFrom(<<>>, evs)

\* one invocation of a handler's is() or decode() on a log (ghost)
Call(op, h, log) == [op |-> op, handler |-> h.id, log |-> log.transactionHash]

Null == [null |-> TRUE]

\* Boolean(x) for the values the callbacks return: null or an event object
Truthy(x) == x # Null

\* the metadata fields written after the spread of the decoded parameters
metadata(eventName, handler, log, blockNumber) ==
  [address     |-> log.address,
   blockNumber |-> blockNumber,
   txHash      |-> log.transactionHash,
   type        |-> eventName,
   signature   |-> handler.signature,
   topic       |-> handler.topic]

\* tryHandler decoding without asking is() first
tryHandlerTrusting(entry, log, blockNumber) ==
  IF HandlerDecode(entry.handler, log).threw
    THEN [value |-> Null, threw |-> TRUE,
          calls |-> <<Call("decode", entry.handler, log)>>]
  ELSE [value |-> Spread(HandlerDecode(entry.handler, log).value,
                         metadata(entry.eventName, entry.handler, log, blockNumber)),
        threw |-> FALSE,
        calls |-> <<Call("decode", entry.handler, log)>>]

\* the callback given to flatMap / map: one candidate on one log.
\* value is the event object or null; calls are the handler invocations made.
tryHandler(entry, log, blockNumber) ==
  IF HandlerIs(entry.handler, log) = "throw"
    THEN \* catch (error) { this.logError(...) }; return null
         [value |-> Null, threw |-> TRUE,
          calls |-> <<Call("is", entry.handler, log)>>]
  ELSE IF HandlerIs(entry.handler, log) = "false"
    THEN [value |-> Null, threw |-> FALSE,
          calls |-> <<Call("is", entry.handler, log)>>]
  ELSE IF HandlerDecode(entry.handler, log).threw
    THEN [value |-> Null, threw |-> TRUE,
          calls |-> <<Call("is", entry.handler, log),
                      Call("decode", entry.handler, log)>>]
  ELSE [value |-> Spread(HandlerDecode(entry.handler, log).value,
                         metadata(entry.eventName, entry.handler, log, blockNumber)),
        threw |-> FALSE,
        calls |-> <<Call("is", entry.handler, log),
                    Call("decode", entry.handler, log)>>]

\* the events and the calls of several results, each in order
concat(rs) ==
  [events |-> FlatSeq([i \in 1..Len(rs) |-> rs[i].events]),
   calls  |-> FlatSeq([i \in 1..Len(rs) |-> rs[i].calls])]

\* .filter(Boolean) on the callbacks' results rs
filterBoolean(rs) ==
  [events |-> SelectSeq([i \in 1..Len(rs) |-> rs[i].value], Truthy),
   calls  |-> FlatSeq([i \in 1..Len(rs) |-> rs[i].calls])]

\* filterBoolean keeping one event per event name
filterByName(entries, rs) ==
  [events |-> SelectSeq(
                [i \in 1..Len(rs) |->
                   IF \E j \in 1..(i - 1) :
                        /\ Truthy(rs[j].value)
                        /\ entries[j].eventName = entries[i].eventName
                     THEN Null ELSE rs[i].value],
                Truthy),
   calls  |-> FlatSeq([i \in 1..Len(rs) |-> rs[i].calls])]

\* the results when the callback has no try of its own: the first throw
\* ends the scan and reaches the catch of decodeLog, which returns []
filterUncaught(rs) ==
  IF \E i \in 1..Len(rs) : rs[i].threw
    THEN [events |-> <<>>,
          calls  |-> FlatSeq([i \in 1..(CHOOSE f \in 1..Len(rs) :
                                          /\ rs[f].threw
                                          /\ \A j \in 1..(f - 1) : ~rs[j].threw) |->
                                rs[i].calls])]
    ELSE filterBoolean(rs)

\* tryHandlers keeping one event per event name
tryHandlersByName(entries, log, blockNumber) ==
  filterByName(entries,
               [i \in 1..Len(entries) |-> tryHandler(entries[i], log, blockNumber)])

\* tryHandlers whose callback does not catch
tryHandlersUncaught(entries, log, blockNumber) ==
  filterUncaught([i \in 1..Len(entries) |-> tryHandler(entries[i], log, blockNumber)])

\* handlers.flatMap(callback).filter(Boolean), with the calls made
tryHandlers(entries, log, blockNumber) ==
  filterBoolean([i \in 1..Len(entries) |-> tryHandler(entries[i], log, blockNumber)])

\* the fallback: this.events.flatMap(event => Object.entries(event).map(...))
scanAll(evs, log, blockNumber) ==
  concat([i \in 1..Len(evs) |-> tryHandlers(ObjectEntries(evs[i]), log, blockNumber)])

\* dispatch trying every registered handler once the topic is a known one
dispatchScan(handlers, log, blockNumber) ==
  IF handlers = <<>> \/ Len(handlers[1]) = 0
    THEN [events |-> <<>>, calls |-> <<>>]
    ELSE scanAll(events, log, blockNumber)

\* the branch of decodeLog for a log with topics; handlers is the optional
\* value topicMap.get(topic0) returned
dispatch(handlers, log, blockNumber) ==
  IF handlers = <<>> \/ Len(handlers[1]) = 0
    THEN [events |-> <<>>, calls |-> <<>>]
    ELSE tryHandlers(handlers[1], log, blockNumber)

\* decodeLog scanning every definition set also when the topic is unknown
decodeLogScanUnknown(m, evs, log, blockNumber) ==
  IF ~Has(log, "topics") THEN [events |-> <<>>, calls |-> <<>>]
  ELSE IF Len(log.topics) > 0 /\ MapHas(m, log.topics[1])
    THEN dispatch(MapGet(m, log.topics[1]), log, blockNumber)
  ELSE scanAll(evs, log, blockNumber)

\* decodeLog whose scan for a log without topics stops after the first
\* definition set
decodeLogScanFirstSet(m, evs, log, blockNumber) ==
  IF ~Has(log, "topics") THEN [events |-> <<>>, calls |-> <<>>]
  ELSE IF Len(log.topics) > 0
    THEN dispatch(MapGet(m, log.topics[1]), log, blockNumber)
  ELSE scanAll(SubSeq(evs, 1, 1), log, blockNumber)

\* decodeLog(log, blockNumber) with this.topicMap = m and this.events = evs
decodeLogWith(m, evs, log, blockNumber) ==
  IF ~Has(log, "topics")
    THEN \* log.topics.length throws a TypeError, caught by the outer catch
         [events |-> <<>>, calls |-> <<>>]
  ELSE IF Len(log.topics) > 0
    THEN dispatch(MapGet(m, log.topics[1]), log, blockNumber)
  ELSE scanAll(evs, log, blockNumber)

\* decodeLog of a pipe that decodes nothing once a batch of it has faulted
decodeLogStale(log, blockNumber) ==
  IF \E i \in 1..Len(history) : history[i].caught
    THEN [events |-> <<>>, calls |-> <<>>]
    ELSE decodeLogWith(topicMap, events, log, blockNumber)

decodeLog(log, blockNumber) == decodeLogWith(topicMap, events, log, blockNumber)

\* the inner loop of processBatch: every log of a block, in order
decodeLogs(block) ==
  concat([i \in 1..Len(block.logs) |->
            decodeLog(block.logs[i], block.header.number)])

\* push putting the events in front of those collected so far
unshift(decodedEvents, x) == x \o decodedEvents

\* decodedEvents.push(...events) for the events x of one block
push(decodedEvents, x) == decodedEvents \o x

RECURSIVE processBatchFromUncaught(_, _, _)
\* processBatchFrom when decodeLog has no catch of its own: the TypeError of
\* a log without topics leaves the loop
processBatchFromUncaught(blocks, decodedEvents, calls) ==
  IF blocks = <<>>
    THEN [threw |-> FALSE, value |-> decodedEvents, calls |-> calls,
          partial |-> decodedEvents]
  ELSE IF ~Has(Head(blocks), "logs") \/ Len(Head(blocks).logs) = 0
    THEN processBatchFromUncaught(Tail(blocks), decodedEvents, calls)
  ELSE IF ~Has(Head(blocks), "header")
    THEN [threw |-> TRUE, value |-> <<>>, calls |-> calls,
          partial |-> decodedEvents]
  ELSE IF \E i \in 1..Len(Head(blocks).logs) : ~Has(Head(blocks).logs[i], "topics")
    THEN [threw |-> TRUE, value |-> <<>>, calls |-> calls,
          partial |-> decodedEvents]
  ELSE processBatchFromUncaught(Tail(blocks),
                                push(decodedEvents, decodeLogs(Head(blocks)).events),
                                calls \o decodeLogs(Head(blocks)).calls)

RECURSIVE processBatchFrom(_, _, _)

\* the rest of the loop after a block gave x
processBatchNext(blocks, decodedEvents, calls, x) ==
  processBatchFrom(blocks, push(decodedEvents, x.events), calls \o x.calls)

\* the loop of processBatch over the remaining blocks; threw: a TypeError
\* left the loop (block.header.number of a block without header), with
\* partial the local decodedEvents lost with it
processBatchFrom(blocks, decodedEvents, calls) ==
  IF blocks = <<>>
    THEN [threw |-> FALSE, value |-> decodedEvents, calls |-> calls,
          partial |-> decodedEvents]
  ELSE IF ~Has(Head(blocks), "logs") \/ Len(Head(blocks).logs) = 0
    THEN processBatchFrom(Tail(blocks), decodedEvents, calls)
  ELSE IF ~Has(Head(blocks), "header")
    THEN \* the argument of logDebug is evaluated whatever options.debug is
         [threw |-> TRUE, value |-> <<>>, calls |-> calls,
          partial |-> decodedEvents]
  ELSE processBatchNext(Tail(blocks), decodedEvents, calls,
                        decodeLogs(Head(blocks)))

processBatch(blocks) == processBatchFrom(blocks, <<>>, <<>>)

RECURSIVE lookedUp(_)
\* the first topics decodeLog looks up in the topic map, for the logs of the
\* blocks the loop of processBatch reaches
lookedUp(blocks) ==
  IF blocks = <<>> THEN <<>>
  ELSE IF ~Has(Head(blocks), "logs") \/ Len(Head(blocks).logs) = 0
    THEN lookedUp(Tail(blocks))
  ELSE IF ~Has(Head(blocks), "header") THEN <<>>
  ELSE FlatSeq([i \in 1..Len(Head(blocks).logs) |->
                  IF Has(Head(blocks).logs[i], "topics")
                     /\ Len(Head(blocks).logs[i].topics) > 0
                    THEN <<Head(blocks).logs[i].topics[1]>>
                    ELSE <<>>])
         \o lookedUp(Tail(blocks))

\* a lookup that creates the entry of a topic it does not find
MapAfterGetOrCreate(m, k) == IF MapHas(m, k) THEN m ELSE MapSet(m, k, <<>>)

\* the map after this.topicMap.get(k): Map.get writes nothing
MapAfterGet(m, k) == m

RECURSIVE topicMapAfter(_, _)
\* this.topicMap after the lookups of these topics
topicMapAfter(m, topics) ==
  IF topics = <<>> THEN m
  ELSE topicMapAfter(MapAfterGet(m, Head(topics)), Tail(topics))

\* enqueue adding the events to a chunk still waiting in the queue
enqueueMerged(queue, chunk) ==
  IF queue = <<>> THEN <<chunk>>
  ELSE [queue EXCEPT ![Len(queue)] = @ \o chunk]

\* controller.enqueue(chunk) on the readable side's queue
enqueue(queue, chunk) == Append(queue, chunk)

\* enqueueDecoded whose catch enqueues what was decoded before the throw
enqueueDecodedKeepPartial(r, queue) ==
  [queue  |-> IF Len(r.partial) > 0 THEN enqueue(queue, r.partial) ELSE queue,
   threw  |-> FALSE,
   caught |-> r.threw,
   calls  |-> r.calls]

\* enqueueDecoded without its test of decodedEvents.length
enqueueDecodedUnguarded(r, queue) ==
  [queue  |-> IF r.threw THEN queue ELSE enqueue(queue, r.value),
   threw  |-> FALSE,
   caught |-> r.threw,
   calls  |-> r.calls]

\* the try of processBlocks once processBatch returned or threw r: enqueue
\* a non-empty result; catch (error) { this.logError(...) }
enqueueDecoded(r, queue) ==
  [queue  |-> IF ~r.threw /\ Len(r.value) > 0 THEN enqueue(queue, r.value)
                                               ELSE queue,
   threw  |-> FALSE,
   caught |-> r.threw,
   calls  |-> r.calls]

\* processBlocks({ blocks }, controller): the controller's queue afterwards,
\* whether it threw, whether a catch ran, and the handler invocations made
processBlocks(dat, queue) ==
  IF ~Has(dat, "blocks") \/ Len(dat.blocks) = 0
    THEN [queue |-> queue, threw |-> FALSE, caught |-> FALSE, calls |-> <<>>]
    ELSE enqueueDecoded(processBatch(dat.blocks), queue)

\* the try / catch of the transform callback around the call r
tryCatch(r, queue) ==
  IF r.threw
    THEN [queue |-> queue, threw |-> FALSE, caught |-> TRUE, calls |-> r.calls]
    ELSE r

\* the transform callback of stream()
transform(dat, queue) == tryCatch(processBlocks(dat, queue), queue)

\* getStream listing the topic of every handler rather than the map's keys
getStreamHandlerTopics(p) ==
  [type      |-> "evm",
   fromBlock |-> p.startBlock,
   toBlock   |-> Opt(p, "endBlock"),
   fields    |-> [block |-> {"number", "hash", "timestamp"},
                  log   |-> {"address", "topics", "data", "transactionHash",
                             "logIndex", "transactionIndex"}],
   logs      |-> << [address     |-> Opt(p, "contractAddresses"),
                     topic0      |-> [k \in 1..Len(FlatSeq(events)) |->
                                        FlatSeq(events)[k].handler.topic],
                     transaction |-> TRUE] >>]

\* the argument getStream(params) gives to portalClient.getStream
getStream(p) ==
  [type      |-> "evm",
   fromBlock |-> p.startBlock,
   toBlock   |-> Opt(p, "endBlock"),
   fields    |-> [block |-> {"number", "hash", "timestamp"},
                  log   |-> {"address", "topics", "data", "transactionHash",
                             "logIndex", "transactionIndex"}],
   logs      |-> << [address     |-> Opt(p, "contractAddresses"),
                     topic0      |-> MapKeys(topicMap),
                     transaction |-> TRUE] >>]

\* pipeThrough told not to cancel the source when the piped stream goes away
pipeThroughPreventCancel ==
  [preventClose |-> FALSE, preventAbort |-> FALSE, preventCancel |-> TRUE]

\* the options of getStream(params).pipeThrough(transformStream): none are
\* given, so each has its default
pipeThroughOptions ==
  [preventClose |-> FALSE, preventAbort |-> FALSE, preventCancel |-> FALSE]

\* portalClient.getStream(req): the source stream, or a throw when the
\* request cannot be established
portalGetStream(req, established) ==
  [threw |-> ~established, req |-> req]

\* stream() whose catch logs the error and does not throw it again
streamSwallowed(r) ==
  [returned |-> ~r.threw, rejected |-> FALSE]

\* stream(params) once getStream answered r: the piped stream is returned, or
\* the catch logs the error and throws it again
stream(r) ==
  [returned |-> ~r.threw, rejected |-> r.threw]

----------------------------------------------------------------------------
(* What a chunk should yield, stated on the registration and the chunk     *)
(* (not computed by the pipe's functions).                                 *)

\* every registered (name, handler) pair, in registration order
Registered == FlatSeq(events)

BlocksOf(dat) == IF Has(dat, "blocks") THEN dat.blocks ELSE <<>>

LogsOf(block) == IF Has(block, "logs") THEN block.logs ELSE <<>>

\* <<i, j>>: the j-th log of the i-th block
Positions(dat) ==
  UNION { {<<i, j>> : j \in 1..Len(LogsOf(BlocksOf(dat)[i]))} :
          i \in 1..Len(BlocksOf(dat)) }

LogAt(dat, pos) == BlocksOf(dat)[pos[1]].logs[pos[2]]

\* a block that has logs and no header: reading header.number faults
FaultyBlock(block) == Len(LogsOf(block)) > 0 /\ ~Has(block, "header")

BatchFaults(dat) ==
  \E i \in 1..Len(BlocksOf(dat)) : FaultyBlock(BlocksOf(dat)[i])

\* the indices into Registered of the candidates for a log
CandidatesOf(log) ==
  IF ~Has(log, "topics") THEN {}
  ELSE IF Len(log.topics) > 0
    THEN {k \in 1..Len(Registered) : Registered[k].handler.topic = log.topics[1]}
  ELSE 1..Len(Registered)

Faults(k, log) ==
  \/ HandlerIs(Registered[k].handler, log) = "throw"
  \/ /\ HandlerIs(Registered[k].handler, log) = "true"
     /\ HandlerDecode(Registered[k].handler, log).threw

Accepts(k, log) ==
  /\ HandlerIs(Registered[k].handler, log) = "true"
  /\ ~HandlerDecode(Registered[k].handler, log).threw

\* <<i, j, k>>: candidate k applies to log <<i, j>> and decodes it
Matches(dat) ==
  UNION { {<<pos[1], pos[2], k>> :
             k \in {c \in CandidatesOf(LogAt(dat, pos)) : Accepts(c, LogAt(dat, pos))}} :
          pos \in Positions(dat) }

\* block order, then log order, then registration order
Before(a, b) ==
  \/ a[1] < b[1]
  \/ a[1] = b[1] /\ a[2] < b[2]
  \/ a[1] = b[1] /\ a[2] = b[2] /\ a[3] < b[3]

\* the elements of S as the sequence Before orders them in
Ordered(S) ==
  [n \in 1..Cardinality(S) |->
     CHOOSE x \in S : Cardinality({y \in S : Before(y, x)}) = n - 1]

\* which log and which registered pair an event came from
MatchKey(dat, m) ==
  [txHash  |-> LogAt(dat, <<m[1], m[2]>>).transactionHash,
   handler |-> Registered[m[3]].handler.id,
   type    |-> Registered[m[3]].eventName]

EventKey(ev) ==
  [txHash  |-> ev.txHash,
   handler |-> IF Has(ev, "value") THEN "h1"
               ELSE IF Has(ev, "tokenId") THEN "h2" ELSE "h3",
   type    |-> ev.type]

ExpectedKeys(dat) ==
  LET ms == Ordered(Matches(dat))
  IN  [n \in 1..Len(ms) |-> MatchKey(dat, ms[n])]

KeysOf(chunk) == [n \in 1..Len(chunk) |-> EventKey(chunk[n])]

----------------------------------------------------------------------------
(* The callers and the portal. *)

NoKeys == [k \in {} |-> 0]

\* the Filters objects a caller may pass to stream()
AllFilters ==
  { Spread(Spread(Spread(Spread([startBlock |-> s], e), c), f), t) :
      s \in {100, 200},
      e \in {NoKeys, [endBlock |-> 102], [endBlock |-> 203]},
      c \in {NoKeys, [contractAddresses |-> <<"0xA">>],
             [contractAddresses |-> <<"0xA", "0xB">>]},
      f \in {NoKeys, [from |-> "0xS"]},
      t \in {NoKeys, [to |-> "0xR"]} }

\* those of them the streams of Spec are opened with
StreamFilters ==
  { [startBlock |-> 100, contractAddresses |-> <<"0xA">>] }

TopicSeqs == {<<>>, <<"T1">>, <<"T2">>, <<"T3">>}

\* the logs the portal may send, before it stamps them: every topic list
\* with every payload, and a log without a topics field
LogShapes ==
  {[topics |-> t, data |-> d] : t \in TopicSeqs, d \in DataValues}
    \cup {[data |-> "d1"]}

NoData == [meta |-> "portal"]

NoLast == [caught |-> FALSE, calls |-> <<>>, emitted |-> <<>>]

Init ==
  /\ events \in Registrations
  /\ topicMap = initializeTopicMap(events)
  /\ phase = "new"
  /\ params = <<>>
  /\ setup = "none"
  /\ request = <<>>
  /\ data = NoData
  /\ nextBlock = 0
  /\ outQ = <<>>
  /\ last = NoLast
  /\ nIn = 0
  /\ history = <<>>
  /\ delivered = <<>>

\* const stream = await pipe.stream(p), the portal establishing the request
\* or not: afterwards the caller holds a stream ("idle"), a rejected promise
\* ("failed") or a promise resolved without a stream ("nostream")
Stream(p, established) ==
  /\ phase = "new"
  /\ params' = <<p>>
  /\ request' = <<getStream(p)>>
  /\ setup' = IF established THEN "established" ELSE "refused"
  /\ nextBlock' = getStream(p).fromBlock
  /\ phase' = IF stream(portalGetStream(getStream(p), established)).rejected
                THEN "failed"
              ELSE IF stream(portalGetStream(getStream(p), established)).returned
                THEN "idle"
              ELSE "nostream"
  /\ UNCHANGED <<events, topicMap, data, outQ, last, nIn, history, delivered>>

\* the portal's stream asks for more while it is open and its queue has
\* room, and no more once it is cancelled
sourcePulled(ph) == ph \in {"idle", "done", "detached"}

\* the source is pulled and the portal starts assembling the next chunk.  A
\* source left uncancelled by a pipe that is gone ("detached") is still
\* pulled, up to its own queue, with nobody to take the chunk.
SourceBegin(withBlocks) ==
  /\ sourcePulled(phase)
  /\ nIn < MaxBatches
  /\ data' = IF withBlocks THEN Spread(NoData, [blocks |-> <<>>]) ELSE NoData
  /\ last' = NoLast
  /\ phase' = IF phase = "detached" THEN "detached" ELSE "building"
  /\ UNCHANGED <<events, topicMap, setup, params, request, nextBlock, outQ, nIn,
                 history, delivered>>

NumLogs(blocks) ==
  Len(FlatSeq([i \in 1..Len(blocks) |->
                 IF Has(blocks[i], "logs") THEN blocks[i].logs ELSE <<>>]))

\* the portal adds the next block of the chain to the chunk; a block may
\* arrive without header or without logs field
SourceAddBlock(withHeader, withLogs) ==
  /\ phase = "building"
  /\ Has(data, "blocks")
  /\ Len(data.blocks) < MaxBlocks
  /\ IF request[1].toBlock = <<>> THEN TRUE
                                  ELSE nextBlock <= request[1].toBlock[1]
  /\ LET b0 == [transactions |-> <<>>]
         b1 == IF withHeader THEN Spread(b0, [header |-> [number |-> nextBlock]])
                             ELSE b0
         b2 == IF withLogs THEN Spread(b1, [logs |-> <<>>]) ELSE b1
     IN  data' = [data EXCEPT !.blocks = Append(@, b2)]
  /\ nextBlock' = nextBlock + 1
  /\ UNCHANGED <<events, topicMap, setup, phase, params, request, outQ, last, nIn,
                 history, delivered>>

\* the portal adds a log to the last block of the chunk, stamped with the
\* contract address, its transaction's hash and its index in the block
SourceAddLog(shape) ==
  /\ phase = "building"
  /\ Has(data, "blocks")
  /\ Len(data.blocks) > 0
  /\ NumLogs(data.blocks) < MaxLogs
  /\ LET n     == Len(data.blocks)
         block == data.blocks[n]
     IN  /\ Has(block, "logs")
         /\ LET log == Spread(shape,
                         [address         |-> "0xA",
                          transactionHash |-> <<nextBlock - 1, Len(block.logs)>>,
                          logIndex        |-> Len(block.logs)])
            IN  data' = [data EXCEPT !.blocks[n].logs = Append(@, log)]
  /\ UNCHANGED <<events, topicMap, setup, phase, params, request, nextBlock, outQ,
                 last, nIn, history, delivered>>

\* the number of the first block of a chunk assembled up to nextBlock
FirstBlock(dat) ==
  nextBlock - (IF Has(dat, "blocks") THEN Len(dat.blocks) ELSE 0)

\* what the callback's result r does to the stream
Transformed(r) ==
  /\ outQ' = r.queue
  /\ last' = [caught  |-> r.caught,
              calls   |-> r.calls,
              emitted |-> SubSeq(r.queue, Len(outQ) + 1, Len(r.queue))]
  /\ history' = Append(history,
                       [lo |-> FirstBlock(data), hi |-> nextBlock - 1,
                        caught |-> r.caught,
                        matched |-> Matches(data) # {}])
  /\ phase' = IF r.threw THEN "errored" ELSE "done"

\* the chunk reaches the TransformStream: transform(data, controller).  A
\* throw out of the callback would error both sides of the stream.
Transform ==
  /\ phase = "building"
  /\ Transformed(transform(data, outQ))
  /\ topicMap' = topicMapAfter(topicMap, lookedUp(BlocksOf(data)))
  /\ nIn' = nIn + 1
  /\ UNCHANGED <<events, setup, params, request, data, nextBlock, delivered>>

\* the incoming chunks whose blocks the events of a chunk name
Origins(chunk) ==
  {i \in 1..Len(history) :
     \E n \in 1..Len(chunk) :
       history[i].lo <= chunk[n].blockNumber /\ chunk[n].blockNumber <= history[i].hi}

\* the consumer's for await reads the next chunk
Read ==
  /\ phase \in {"done", "building"}
  /\ Len(outQ) > 0
  /\ outQ' = Tail(outQ)
  /\ delivered' = Append(delivered, Origins(Head(outQ)))
  /\ UNCHANGED <<events, topicMap, setup, phase, params, request, data, nextBlock,
                 last, nIn, history>>

\* the consumer leaves its for await early or cancels its reader: the
\* readable side drops its queue, the writable side is errored, and the pipe
\* cancels the source unless told not to; the chunk the portal was
\* assembling never reaches transform()
Cancel ==
  /\ phase \in {"idle", "done", "building"}
  /\ outQ' = <<>>
  /\ phase' = IF pipeThroughOptions.preventCancel THEN "detached"
                                                  ELSE "cancelled"
  /\ UNCHANGED <<events, topicMap, setup, params, request, data, nextBlock,
                 last, nIn, history, delivered>>

\* a stream whose consumer reads every chunk before the portal sends the next
Next ==
  \/ \E p \in StreamFilters, established \in BOOLEAN : Stream(p, established)
  \/ \E withBlocks \in BOOLEAN : outQ = <<>> /\ SourceBegin(withBlocks)
  \/ \E withHeader \in BOOLEAN, withLogs \in BOOLEAN :
       SourceAddBlock(withHeader, withLogs)
  \/ \E shape \in LogShapes : SourceAddLog(shape)
  \/ Transform
  \/ Read

Spec == Init /\ [][Next]_vars

\* the logs of the streams whose consumer lags
LagLogShapes ==
  { [topics |-> <<"T1">>, data |-> "d1"],
    [topics |-> <<"T3">>, data |-> "d1"],
    [topics |-> <<>>, data |-> "d2"] }

\* a stream whose consumer reads when it likes, chunks queueing meanwhile,
\* and may cancel
NextLag ==
  \/ \E p \in StreamFilters, established \in BOOLEAN : Stream(p, established)
  \/ \E withBlocks \in BOOLEAN : SourceBegin(withBlocks)
  \/ \E withHeader \in BOOLEAN, withLogs \in BOOLEAN :
       SourceAddBlock(withHeader, withLogs)
  \/ \E shape \in LagLogShapes : SourceAddLog(shape)
  \/ Transform
  \/ Read
  \/ Cancel

SpecLag == Init /\ [][NextLag]_vars

\* the definition-set lists of the pipes whose stream() is called
StreamRegistrations ==
  Registrations \cup
  { <<>>,
    << <<Entry("Approval", Erc721Approval)>> >>,
    << <<Entry("Transfer", Erc20Transfer), Entry("Approval", Erc721Approval)>>,
       <<Entry("Transfer", Erc721Transfer)>>,
       <<Entry("Approval", Erc721Approval)>> >> }

InitStream ==
  /\ events \in StreamRegistrations
  /\ topicMap = initializeTopicMap(events)
  /\ phase = "new"
  /\ params = <<>>
  /\ setup = "none"
  /\ request = <<>>
  /\ data = NoData
  /\ nextBlock = 0
  /\ outQ = <<>>
  /\ last = NoLast
  /\ nIn = 0
  /\ history = <<>>
  /\ delivered = <<>>

\* any pipe, any Filters: the call of stream() alone
NextStream == \E p \in AllFilters, established \in BOOLEAN : Stream(p, established)

SpecStream == InitStream /\ [][NextStream]_vars

----------------------------------------------------------------------------
(* Properties. *)

\* chunks enqueued so far
nOut == Len(delivered) + Len(outQ)

\* a match in a block the loop reaches before it faults
Produced(dat) ==
  \E m \in Matches(dat) :
    \A i \in 1..m[1] : ~FaultyBlock(BlocksOf(dat)[i])

NoEmptyChunk ==
  /\ \A i \in 1..Len(outQ) : Len(outQ[i]) > 0
  /\ \A i \in 1..Len(last.emitted) : Len(last.emitted[i]) > 0

Counting ==
  /\ nOut <= nIn
  /\ nOut = nIn => \A i \in 1..Len(history) : history[i].matched

\* C1 as stated: every incoming chunk enqueues at most one chunk, and one
\* exactly when it produced at least one decoded event; no empty chunk is
\* enqueued; outgoing chunks never outnumber incoming ones, and equal them only
\* when every incoming chunk had a match.
C1_AsStated ==
  /\ phase = "done" =>
       /\ Len(last.emitted) <= 1
       /\ Len(last.emitted) = 1 <=> Produced(data)
  /\ NoEmptyChunk
  /\ Counting

\* C1, amended: every incoming chunk enqueues at most one chunk, and one
\* exactly when no block of it faults the batch and it has at least one match;
\* no empty chunk is enqueued; outgoing chunks never outnumber incoming ones,
\* and equal them only when every incoming chunk had a match.
C1_OneOrNone ==
  /\ phase = "done" =>
       /\ Len(last.emitted) <= 1
       /\ Len(last.emitted) = 1 <=> (~BatchFaults(data) /\ Matches(data) # {})
  /\ NoEmptyChunk
  /\ Counting

\* two chunks came in, both with logs; one was enqueued and one suppressed
C1_Witness ==
  /\ phase = "done"
  /\ nIn = 2
  /\ nOut = 1
  /\ last.emitted = <<>>
  /\ Positions(data) # {}
  /\ ~BatchFaults(data)

\* the chunk enqueued by the last transform, <<>> if none
Emitted == IF last.emitted = <<>> THEN <<>> ELSE last.emitted[1]

\* the events of a chunk that came from the log with this transaction hash
EventsOfLog(chunk, log) ==
  SelectSeq(chunk, LAMBDA ev : ev.txHash = log.transactionHash)

\* the registered pairs among ks that accept the log, in registration order
AcceptingKeys(log) ==
  LET acc == SelectSeq([k \in 1..Len(Registered) |-> k],
                       LAMBDA k : k \in CandidatesOf(log) /\ Accepts(k, log))
  IN  [n \in 1..Len(acc) |->
         [txHash  |-> log.transactionHash,
          handler |-> Registered[acc[n]].handler.id,
          type    |-> Registered[acc[n]].eventName]]

\* the log has a first topic that several registered handlers declare
SharedTopic(log) ==
  /\ Has(log, "topics")
  /\ Len(log.topics) > 0
  /\ Cardinality(CandidatesOf(log)) >= 2

\* C2: a decoded log whose topics[0] several handlers share yields one event
\* per handler that accepts and decodes it, tagged with that handler's event
\* name, in registration order, none dropped as a duplicate.
C2_SharedTopic ==
  (phase = "done" /\ ~BatchFaults(data)) =>
    \A pos \in Positions(data) :
      SharedTopic(LogAt(data, pos)) =>
        KeysOf(EventsOfLog(Emitted, LogAt(data, pos)))
          = AcceptingKeys(LogAt(data, pos))

\* a log with topic T1 that both Transfer handlers accept gave two events
C2_Witness ==
  /\ phase = "done"
  /\ ~BatchFaults(data)
  /\ \E pos \in Positions(data) :
       /\ SharedTopic(LogAt(data, pos))
       /\ Len(AcceptingKeys(LogAt(data, pos))) = 2
       /\ Len(EventsOfLog(Emitted, LogAt(data, pos))) = 2
       /\ EventsOfLog(Emitted, LogAt(data, pos))[1].type
            = EventsOfLog(Emitted, LogAt(data, pos))[2].type

\* a handler invocation recorded by the last transform
Called(op, k, log) ==
  [op |-> op, handler |-> Registered[k].handler.id, log |-> log.transactionHash]
    \in Range(last.calls)

KeyOf(k, log) ==
  [txHash  |-> log.transactionHash,
   handler |-> Registered[k].handler.id,
   type    |-> Registered[k].eventName]

\* pos is the log at, or a log after, the log at from
AtOrAfter(pos, from) ==
  \/ pos[1] > from[1]
  \/ pos[1] = from[1] /\ pos[2] >= from[2]

\* C3: when a candidate's is() or decode() faults on a log, that candidate
\* alone contributes nothing: every candidate of that log and of every later
\* log of the chunk is still asked, and each one that accepts and decodes has
\* its event enqueued.
C3_CandidateIsolation ==
  (phase = "done" /\ ~BatchFaults(data)) =>
    \A from \in Positions(data) :
      (\E f \in CandidatesOf(LogAt(data, from)) : Faults(f, LogAt(data, from))) =>
        \A pos \in Positions(data) :
          AtOrAfter(pos, from) =>
            \A k \in CandidatesOf(LogAt(data, pos)) :
              /\ Called("is", k, LogAt(data, pos))
              /\ Accepts(k, LogAt(data, pos)) =>
                   KeyOf(k, LogAt(data, pos)) \in Range(KeysOf(Emitted))
              /\ Faults(k, LogAt(data, pos)) =>
                   KeyOf(k, LogAt(data, pos)) \notin Range(KeysOf(Emitted))

\* a candidate faulted on the first log of a block, a later candidate of the
\* same log and a candidate of the next log of the block were enqueued
C3_Witness ==
  /\ phase = "done"
  /\ ~BatchFaults(data)
  /\ \E i \in 1..Len(BlocksOf(data)) :
       /\ Len(LogsOf(BlocksOf(data)[i])) >= 2
       /\ \E f, k \in CandidatesOf(LogAt(data, <<i, 1>>)) :
            /\ f < k
            /\ Faults(f, LogAt(data, <<i, 1>>))
            /\ KeyOf(k, LogAt(data, <<i, 1>>)) \in Range(KeysOf(Emitted))
       /\ EventsOfLog(Emitted, LogAt(data, <<i, 2>>)) # <<>>

\* C4: a chunk with a block that has logs and no header enqueues nothing,
\* not even the events decoded from its earlier blocks; the fault does not
\* leave the callback, so the stream is not errored; and the chunk after it
\* is decoded as any other.
C4_BatchIsolation ==
  /\ phase # "errored"
  /\ (phase = "done" /\ BatchFaults(data)) =>
       /\ last.caught
       /\ last.emitted = <<>>
  /\ (phase = "done" /\ nIn >= 2 /\ ~BatchFaults(data)) =>
       (history[nIn - 1].caught => KeysOf(Emitted) = ExpectedKeys(data))

\* the first chunk had a match and was dropped by the catch, the second
\* was decoded and enqueued
C4_Witness ==
  /\ phase = "done"
  /\ nIn = 2
  /\ history[1].caught
  /\ history[1].matched
  /\ nOut = 1
  /\ Len(Emitted) >= 2

\* the log has a first topic that no registered handler declares
UnknownTopic(log) ==
  /\ Has(log, "topics")
  /\ Len(log.topics) > 0
  /\ \A k \in 1..Len(Registered) : Registered[k].handler.topic # log.topics[1]

\* C5: a log whose first topic no registered handler declares yields no
\* event and no fault, and no handler's is() or decode() is called for it.
C5_UnknownTopic ==
  phase = "done" =>
    /\ \A pos \in Positions(data) :
         UnknownTopic(LogAt(data, pos)) =>
           /\ EventsOfLog(Emitted, LogAt(data, pos)) = <<>>
           /\ \A c \in Range(last.calls) :
                c.log # LogAt(data, pos).transactionHash
    /\ ~BatchFaults(data) => ~last.caught

\* a decoded chunk held a log of unknown topic that every registered handler
\* would have accepted, next to a log that was decoded
C5_Witness ==
  /\ phase = "done"
  /\ ~BatchFaults(data)
  /\ Emitted # <<>>
  /\ \E pos \in Positions(data) :
       /\ UnknownTopic(LogAt(data, pos))
       /\ Has(BlocksOf(data)[pos[1]], "header")
       /\ \A k \in 1..Len(Registered) : Accepts(k, LogAt(data, pos))

\* C6: a chunk that does not fault enqueues exactly its matches - every
\* (log, candidate) pair that accepts and decodes, once - ordered by block,
\* then by log within the block, then by registration within the log.
C6_ExactSequence ==
  (phase = "done" /\ ~BatchFaults(data)) =>
    KeysOf(Emitted) = ExpectedKeys(data)

\* events of two blocks, several of them from one log, were enqueued
C6_Witness ==
  /\ phase = "done"
  /\ ~BatchFaults(data)
  /\ Len(Emitted) >= 3
  /\ \E i, j \in 1..Len(Emitted) : Emitted[i].blockNumber # Emitted[j].blockNumber
  /\ \E i, j \in 1..Len(Emitted) : i # j /\ Emitted[i].txHash = Emitted[j].txHash

\* the log has a topics field holding no topic
NoTopics(log) == Has(log, "topics") /\ Len(log.topics) = 0

\* the is() calls the last transform made for a log, as handler ids in order
AskedFor(log) ==
  LET cs == SelectSeq(last.calls,
                      LAMBDA c : c.op = "is" /\ c.log = log.transactionHash)
  IN  [n \in 1..Len(cs) |-> cs[n].handler]

\* C8: a log without topics is offered to every registered handler, set by
\* set and entry by entry, a fault of one not ending the scan, and yields
\* one event per handler that accepts and decodes it.
C8_NoTopicsScan ==
  (phase = "done" /\ ~BatchFaults(data)) =>
    \A pos \in Positions(data) :
      NoTopics(LogAt(data, pos)) =>
        /\ AskedFor(LogAt(data, pos))
             = [k \in 1..Len(Registered) |-> Registered[k].handler.id]
        /\ KeysOf(EventsOfLog(Emitted, LogAt(data, pos)))
             = AcceptingKeys(LogAt(data, pos))

\* a log without topics was offered to all three handlers; one faulted and
\* the ones after it were enqueued
C8_Witness ==
  /\ phase = "done"
  /\ ~BatchFaults(data)
  /\ \E pos \in Positions(data) :
       /\ NoTopics(LogAt(data, pos))
       /\ Len(AskedFor(LogAt(data, pos))) = 3
       /\ \E f \in 1..Len(Registered) : Faults(f, LogAt(data, pos))
       /\ Len(EventsOfLog(Emitted, LogAt(data, pos))) >= 1

\* the origins of every chunk enqueued so far, read or not, in queue order
AllOrigins == delivered \o [i \in 1..Len(outQ) |-> Origins(outQ[i])]

\* C7: outgoing chunks follow the order of the incoming chunks they came
\* from, and each holds events of exactly one incoming chunk - all of that
\* chunk's events, none kept for a later one, none of another merged in.
C7_OrderAndOrigin ==
  /\ \A i \in 1..Len(AllOrigins) : Cardinality(AllOrigins[i]) = 1
  /\ \A i, j \in 1..Len(AllOrigins) :
       i < j => \A a \in AllOrigins[i], b \in AllOrigins[j] : a < b
  /\ (phase = "done" /\ ~BatchFaults(data)) =>
       /\ Len(Emitted) = Cardinality(Matches(data))
       /\ Emitted # <<>> => Origins(Emitted) = {nIn}

\* two chunks were enqueued before the consumer read the first, which it
\* then read
C7_Witness ==
  /\ nIn = 2
  /\ delivered = <<{1}>>
  /\ Len(outQ) = 1
  /\ Origins(outQ[1]) = {2}

\* the strings of a request that name an account or a contract
RequestAddresses(r) ==
  UNION { IF r.logs[i].address = <<>> THEN {} ELSE Range(r.logs[i].address[1]) :
          i \in 1..Len(r.logs) }

\* C9: when the caller sets from or to, the request given to the portal
\* carries that value.
C9_FromToCarried ==
  phase # "new" =>
    /\ Has(params[1], "from") => params[1].from \in RequestAddresses(request[1])
    /\ Has(params[1], "to") => params[1].to \in RequestAddresses(request[1])

\* C10: the request's from-block is startBlock, its to-block is endBlock
\* (absent when endBlock is), and its one log filter has the caller's
\* contractAddresses as address and every registered topic, once, as topic0.
C10_RequestDerived ==
  phase # "new" =>
    LET r == request[1]
        p == params[1]
        known == {Registered[k].handler.topic : k \in 1..Len(Registered)}
    IN  /\ r.fromBlock = p.startBlock
        /\ r.toBlock = Opt(p, "endBlock")
        /\ Has(p, "endBlock") => r.toBlock = <<p.endBlock>>
        /\ Len(r.logs) = 1
        /\ r.logs[1].address = Opt(p, "contractAddresses")
        /\ Range(r.logs[1].topic0) = known
        /\ Len(r.logs[1].topic0) = Cardinality(known)

\* a request with an end block and two addresses, from a registration in
\* which handlers share topics
C10_Witness ==
  /\ phase = "idle"
  /\ Has(params[1], "endBlock")
  /\ request[1].logs[1].address = << <<"0xA", "0xB">> >>
  /\ Len(request[1].logs[1].topic0) = 2
  /\ Len(Registered) = 4

\* the topics the registered handlers declare
KnownTopics == {Registered[k].handler.topic : k \in 1..Len(Registered)}

\* C11: after construction the keys of the topic map are exactly the distinct
\* topics of the registered handlers, each once, and every key holds at least
\* one candidate.
C11_RegistryKeys ==
  /\ Range(MapKeys(topicMap)) = KnownTopics
  /\ Len(topicMap) = Cardinality(KnownTopics)
  /\ \A i \in 1..Len(topicMap) : Len(topicMap[i].value) > 0

\* a pipe just constructed from three definition sets whose four handlers
\* declare two topics, one of them three times
C11_Witness ==
  /\ phase = "new"
  /\ Len(events) = 3
  /\ Len(Registered) = 4
  /\ Len(topicMap) = 2
  /\ \E i \in 1..Len(topicMap) : Len(topicMap[i].value) = 2

\* the event a match of the chunk stands for: the handler's decoded
\* parameters under the six metadata fields
EventOf(dat, m) ==
  Spread(HandlerDecode(Registered[m[3]].handler, LogAt(dat, <<m[1], m[2]>>)).value,
         [address     |-> LogAt(dat, <<m[1], m[2]>>).address,
          blockNumber |-> BlocksOf(dat)[m[1]].header.number,
          txHash      |-> LogAt(dat, <<m[1], m[2]>>).transactionHash,
          type        |-> Registered[m[3]].eventName,
          signature   |-> Registered[m[3]].handler.signature,
          topic       |-> Registered[m[3]].handler.topic])

ExpectedEvents(dat) ==
  [n \in 1..Cardinality(Matches(dat)) |-> EventOf(dat, Ordered(Matches(dat))[n])]

\* what a chunk enqueues, as a function of the registration and the chunk
ExpectedOutput(dat) ==
  IF BatchFaults(dat) \/ Matches(dat) = {} THEN <<>>
                                           ELSE <<ExpectedEvents(dat)>>

\* C12: what a chunk enqueues is a function of the registration and of that
\* chunk alone - the same whichever chunks, faulting or not, went before - so
\* replaying a sequence of chunks through a fresh pipe with the same
\* registration enqueues the same sequence.
C12_Deterministic ==
  phase = "done" => last.emitted = ExpectedOutput(data)

\* a second chunk was decoded and enqueued after a first one that had
\* matches and was dropped by the catch
C12_Witness ==
  /\ phase = "done"
  /\ nIn = 2
  /\ history[1].caught
  /\ history[1].matched
  /\ last.emitted # <<>>
  /\ last.emitted = ExpectedOutput(data)

\* C13: when the portal cannot establish the request, stream() fails and no
\* stream is returned - nothing is pulled, decoded or enqueued; and stream()
\* fails, or a returned stream is errored, in no other case.
C13_SetupFault ==
  /\ setup = "refused" =>
       /\ phase = "failed"
       /\ nIn = 0 /\ outQ = <<>> /\ delivered = <<>> /\ data = NoData
  /\ phase \in {"failed", "errored"} => setup = "refused"

\* stream() was called with filters, the request reached the portal, which
\* refused it, and the call failed
C13_Witness ==
  /\ phase = "failed"
  /\ setup = "refused"
  /\ params # <<>>
  /\ request = <<getStream(params[1])>>

\* the consumer has cancelled the stream
Gone == phase \in {"cancelled", "detached"}

\* C14: once the consumer has cancelled, the source is pulled no more, no
\* chunk is transformed, enqueued or delivered, the chunks that waited in the
\* queue are dropped, and a chunk that was being assembled stays unprocessed.
C14_Cancellation ==
  /\ [](Gone => outQ = <<>>)
  /\ [][Gone => UNCHANGED <<phase, data, nextBlock, nIn, outQ, delivered,
                           history>>]_vars

\* the consumer cancelled without having read the chunk enqueued for the
\* first batch, while a second batch with a match was being assembled
C14_Witness ==
  /\ phase = "cancelled"
  /\ nIn = 1
  /\ history[1].matched /\ ~history[1].caught
  /\ delivered = <<>>
  /\ outQ = <<>>
  /\ history[1].hi < nextBlock - 1
  /\ Matches(data) # {}

\* C15: every event enqueued comes from a log of the chunk and a registered
\* handler whose is() was called on that log and returned true and whose
\* decode() was called and returned; no log becomes an event because the
\* portal delivered it.
C15_DispatchAuthoritative ==
  phase = "done" =>
    \A n \in 1..Len(Emitted) :
      \E pos \in Positions(data), k \in 1..Len(Registered) :
        /\ Emitted[n] = EventOf(data, <<pos[1], pos[2], k>>)
        /\ Called("is", k, LogAt(data, pos))
        /\ Called("decode", k, LogAt(data, pos))
        /\ Accepts(k, LogAt(data, pos))

\* the portal delivered a log of a registered topic that one candidate
\* rejected and no candidate decoded; it gave no event, another log did
C15_Witness ==
  /\ phase = "done"
  /\ Emitted # <<>>
  /\ \E pos \in Positions(data) :
       /\ CandidatesOf(LogAt(data, pos)) # {}
       /\ \E k \in CandidatesOf(LogAt(data, pos)) :
            /\ HandlerIs(Registered[k].handler, LogAt(data, pos)) = "false"
            /\ Called("is", k, LogAt(data, pos))
            /\ ~Called("decode", k, LogAt(data, pos))
       /\ \A k \in CandidatesOf(LogAt(data, pos)) : ~Accepts(k, LogAt(data, pos))
       /\ EventsOfLog(Emitted, LogAt(data, pos)) = <<>>

\* the log has no topics field, so that log.topics.length faults
Shapeless(log) == ~Has(log, "topics")

\* C16: a log on which dispatch itself faults yields no event, no handler
\* is asked about it, and the chunk is not dropped for it: every other log
\* of its block and of the other blocks is decoded and enqueued.
C16_LogIsolation ==
  (phase = "done" /\ ~BatchFaults(data)) =>
    \A bad \in Positions(data) :
      Shapeless(LogAt(data, bad)) =>
        /\ ~last.caught
        /\ EventsOfLog(Emitted, LogAt(data, bad)) = <<>>
        /\ \A c \in Range(last.calls) : c.log # LogAt(data, bad).transactionHash
        /\ \A pos \in Positions(data) :
             KeysOf(EventsOfLog(Emitted, LogAt(data, pos)))
               = AcceptingKeys(LogAt(data, pos))

\* a block held a log without topics field before a log that was decoded
\* and enqueued
C16_Witness ==
  /\ phase = "done"
  /\ ~BatchFaults(data)
  /\ \E i \in 1..Len(BlocksOf(data)) :
       /\ Len(LogsOf(BlocksOf(data)[i])) = 2
       /\ Shapeless(LogAt(data, <<i, 1>>))
       /\ EventsOfLog(Emitted, LogAt(data, <<i, 2>>)) # <<>>

\* the names of the metadata fields of a decoded event
MetadataFields ==
  {"address", "blockNumber", "txHash", "type", "signature", "topic"}

\* ev is what the handler registered as Registered[k] should give for the
\* log at pos, field by field
CarriesMetadata(ev, dat, pos, k) ==
  /\ ev.address = LogAt(dat, pos).address
  /\ ev.blockNumber = BlocksOf(dat)[pos[1]].header.number
  /\ ev.txHash = LogAt(dat, pos).transactionHash
  /\ ev.type = Registered[k].eventName
  /\ ev.signature = Registered[k].handler.signature
  /\ ev.topic = Registered[k].handler.topic
  /\ DOMAIN ev = MetadataFields
        \cup DOMAIN HandlerDecode(Registered[k].handler, LogAt(dat, pos)).value
  /\ \A f \in DOMAIN ev \ MetadataFields :
       ev[f] = HandlerDecode(Registered[k].handler, LogAt(dat, pos)).value[f]

\* C17: every enqueued event carries its log's address and transaction
\* hash, its block's number, the name its handler was registered under, the
\* handler's signature and topic, and the handler's decoded parameters; a
\* decoded parameter named like a metadata field gives way to the metadata.
C17_Metadata ==
  (phase = "done" /\ Emitted # <<>>) =>
    /\ Len(Emitted) = Cardinality(Matches(data))
    /\ \A n \in 1..Len(Emitted) :
         CarriesMetadata(Emitted[n], data,
                         <<Ordered(Matches(data))[n][1], Ordered(Matches(data))[n][2]>>,
                         Ordered(Matches(data))[n][3])

\* an enqueued Approval event whose decoded parameters named address and
\* topic carries the log's address and the handler's topic instead
C17_Witness ==
  /\ phase = "done"
  /\ \E n \in 1..Len(Emitted) :
       /\ Has(Emitted[n], "owner")
       /\ Emitted[n].address = "0xA"
       /\ Emitted[n].topic = "T2"
       /\ Emitted[n].type = "Approval"

\* the log has a first topic
Topical(log) == Has(log, "topics") /\ Len(log.topics) > 0

\* the ids of the handlers registered under a topic
HandlersUnder(topic) ==
  {Registered[k].handler.id :
     k \in {j \in 1..Len(Registered) : Registered[j].handler.topic = topic}}

\* C18: for a log with a first topic only the handlers registered under
\* that topic are called, whatever the others would answer, and every event
\* of the log has that topic.
C18_OnlyTopicHandlers ==
  phase = "done" =>
    \A pos \in Positions(data) :
      Topical(LogAt(data, pos)) =>
        /\ \A c \in Range(last.calls) :
             c.log = LogAt(data, pos).transactionHash =>
               c.handler \in HandlersUnder(LogAt(data, pos).topics[1])
        /\ \A n \in 1..Len(EventsOfLog(Emitted, LogAt(data, pos))) :
             EventsOfLog(Emitted, LogAt(data, pos))[n].topic
               = LogAt(data, pos).topics[1]

\* a log of topic T2 that the handlers of topic T1 would also accept was
\* offered to the Approval handler alone and gave one event
C18_Witness ==
  /\ phase = "done"
  /\ \E pos \in Positions(data) :
       /\ Topical(LogAt(data, pos))
       /\ LogAt(data, pos).topics[1] = "T2"
       /\ \E k \in 1..Len(Registered) :
            /\ Registered[k].handler.topic = "T1"
            /\ Accepts(k, LogAt(data, pos))
       /\ AskedFor(LogAt(data, pos)) = <<"h3">>
       /\ Len(EventsOfLog(Emitted, LogAt(data, pos))) = 1

\* C19: whatever was streamed and processed - matching, unmatched,
\* topic-less or faulting logs and chunks - the topic map holds the keys and
\* the candidates, in the order, it held right after construction.
C19_RegistryReadOnly ==
  topicMap = initializeTopicMap(events)

\* two chunks went through: one dropped by the catch, one holding a log of
\* an unregistered topic and a log without topics
C19_Witness ==
  /\ phase = "done"
  /\ nIn = 2
  /\ history[1].caught
  /\ ~BatchFaults(data)
  /\ \E pos \in Positions(data) : UnknownTopic(LogAt(data, pos))
  /\ \E pos \in Positions(data) : NoTopics(LogAt(data, pos))
  /\ Len(topicMap) = 2

====
